---- MODULE Spec2Model ----
(***************************************************************************)
(* Model of src/template.py: AvatarProcessingService.                      *)
(*                                                                         *)
(* The service keeps a dictionary _jobs (id -> AvatarJob object).          *)
(* submit_job builds a job, stores it, calls the moderation endpoint and   *)
(* writes status and error_message into the stored object; get_job_status  *)
(* looks an id up.  A call of submit_job takes one step for each write of   *)
(* shared state (the insertion into _jobs, the write of status, the write  *)
(* of error_message); statements that touch only the call's locals are     *)
(* joined to the write that follows them.  Calls interleave freely.  The   *)
(* moderation endpoint is the environment: it ends the wait of a call      *)
(* with any response, or never.                                            *)
(***************************************************************************)
EXTENDS Integers, FiniteSets, Sequences, TLC

\* ---------------------------------------------------------------- bounds
MaxJobs == 2           \* calls of submit_job made in one run

Ids     == 1..MaxJobs                   \* values uuid.uuid4() hands out
\* the (user_id, input_data) pairs callers submit
Inputs  == {<<"user123", "robot">>}

\* ------------------------------------------------------ Python / JSON values
\* A value is a tagged record so that values of different Python types can
\* be compared.  JSON null parses to None.
None     == [k |-> "none", v |-> ""]
PyTrue   == [k |-> "bool", v |-> "true"]
PyFalse  == [k |-> "bool", v |-> "false"]
PyStr(s) == [k |-> "str",  v |-> s]
Absent   == [k |-> "absent", v |-> ""]  \* key not present in the JSON object

\* Python truthiness, as used by `if response.is_approved`
Truthy(x) ==
    CASE x.k = "bool" -> x.v = "true"
      [] x.k = "str"  -> x.v # ""
      [] OTHER        -> FALSE

\* ------------------------------------------------------------ job objects
\* as if the id were derived from the user rather than taken from uuid4
AvatarJob_IdFromUser(id, user_id, status, input_data, output_url, now) ==
    [id |-> IF user_id = "user123" THEN 1 ELSE 2, user_id |-> user_id,
     status |-> status, input_data |-> input_data, output_url |-> output_url,
     created_at |-> now, error_message |-> None]
\* AvatarJob(id, user_id, status, input_data, output_url): created_at is
\* filled by __post_init__, error_message defaults to None.
AvatarJob(id, user_id, status, input_data, output_url, now) ==
    [id |-> id, user_id |-> user_id, status |-> status,
     input_data |-> input_data, output_url |-> output_url,
     created_at |-> now, error_message |-> None]

Terminal == {"completed", "rejected", "failed"}

\* hash(prompt): a function of the prompt only
Hash(prompt) == IF prompt = "robot" THEN 7 ELSE 3

\* as if the TODO of lines 171-172 were still open and nothing returned
_generate_mock_avatar_url_Unset(prompt, now) == None
\* _generate_mock_avatar_url: f".../{hash(prompt)}_{time.time()}.png"
_generate_mock_avatar_url(prompt, now) ==
    [host |-> "https://avatars.example.com/", hash |-> Hash(prompt),
     time |-> now, ext |-> ".png"]

\* ------------------------------------------------- the moderation endpoint
\* What the endpoint may do with one request: the connection fails (it is
\* refused or reset, or the operating system gives up on it), or a response
\* with a status class and a body arrives.
ApprovedVals == {Absent, PyTrue, PyFalse}
ReasonVals   == {Absent, None, PyStr("unsafe")}
NoBody       == [form |-> "none", approved |-> Absent, reason |-> Absent]
Bodies ==
    {[form |-> "invalid", approved |-> Absent, reason |-> Absent]}
    \cup {[form |-> "object", approved |-> a, reason |-> r] :
             a \in ApprovedVals, r \in ReasonVals}
\* the bodies sent with a 3xx status: well-formed verdicts, the case in
\* which only the status tells the response from a 2xx one
RedirectBodies ==
    {b \in Bodies : b.approved \in {PyTrue, PyFalse} /\ b.reason = PyStr("unsafe")}
Outcomes ==
    {[net |-> "failed", status |-> "none", body |-> NoBody]}
    \cup {[net |-> "ok", status |-> "5xx", body |-> NoBody]}
    \cup {[net |-> "ok", status |-> "2xx", body |-> b] : b \in Bodies}
    \cup {[net |-> "ok", status |-> "3xx", body |-> b] : b \in RedirectBodies}

\* exceptions
Exc(type, arg) == [type |-> type, arg |-> arg]
NoExc          == Exc("none", "")
\* the classes `except Exception` catches: every exception the call raises
\* is a subclass of Exception
ExceptionSubclasses ==
    {"ConnectionError", "HTTPError", "JSONDecodeError", "KeyError"}
\* as if the clause were `except requests.RequestException`
Caught_RequestExceptionOnly == {"ConnectionError", "HTTPError", "JSONDecodeError"}
Caught == ExceptionSubclasses

\* str(e)
ExcStr(e) ==
    CASE e.type = "ConnectionError" -> PyStr("Connection aborted: " \o e.arg)
      [] e.type = "HTTPError"       -> PyStr(e.arg \o " Error for url")
      [] e.type = "JSONDecodeError" -> PyStr("Expecting value: line 1 column 1 (char 0)")
      [] e.type = "KeyError"        -> PyStr("'" \o e.arg \o "'")
      [] OTHER                      -> PyStr("")

Raise(e)   == [raised |-> TRUE,  exc |-> e, is_approved |-> None, reason |-> None]
Return(a, r) == [raised |-> FALSE, exc |-> NoExc, is_approved |-> a, reason |-> r]

\* response.raise_for_status(): raises for 4xx and 5xx
RaisesForStatus(status) == status \in {"4xx", "5xx"}

\* as if line 156 read _body.get("approved"): a missing flag becomes None
call_moderation_api_ApprovedDefaulted(o) ==
    IF o.net # "ok" THEN Raise(Exc("ConnectionError", o.net))
    ELSE IF RaisesForStatus(o.status) THEN Raise(Exc("HTTPError", o.status))
    ELSE IF o.body.form = "invalid" THEN Raise(Exc("JSONDecodeError", ""))
    ELSE IF o.body.reason = Absent THEN Raise(Exc("KeyError", "reason"))
    ELSE Return(IF o.body.approved = Absent THEN None ELSE o.body.approved,
                o.body.reason)
\* call_moderation_api, lines 151-158, applied to what the endpoint did
call_moderation_api(o) ==
    IF o.net # "ok" THEN Raise(Exc("ConnectionError", o.net))
    ELSE IF RaisesForStatus(o.status) THEN Raise(Exc("HTTPError", o.status))
    ELSE IF o.body.form = "invalid" THEN Raise(Exc("JSONDecodeError", ""))
    ELSE IF o.body.approved = Absent THEN Raise(Exc("KeyError", "approved"))
    ELSE IF o.body.reason = Absent THEN Raise(Exc("KeyError", "reason"))
    ELSE Return(o.body.approved, o.body.reason)

\* ------------------------------------------------------------------ state
\* A call is one invocation of submit_job, numbered in the order the calls
\* begin; any number of calls may be in progress at once.
VARIABLES
    _jobs,      \* self._jobs: key -> id of the stored AvatarJob object
    heap,       \* the AvatarJob objects, by id
    pc,         \* pc[c]: where call c is inside submit_job
    frame,      \* frame[c]: the locals of call c; outcome is what ended the
                \* wait of requests.post (NoOutcome before that)
    clock,      \* the current reading of time.time()
    nCalls,     \* number of submit_job calls begun so far
    retval,     \* call -> the job as submit_job returned it
    nTrans,     \* id -> number of writes that changed the job's status
    nPosts,     \* id -> number of times a call for the job entered the wait
                \* of requests.post (line 151)
    lastGet     \* argument and result of the latest get_job_status

vars == <<_jobs, heap, pc, frame, clock, nCalls, retval, nTrans, nPosts, lastGet>>

Calls   == 1..MaxJobs
NoOutcome == [net |-> "none", status |-> "none", body |-> NoBody]
NoFrame == [user_id |-> "", input_data |-> "", _job |-> 0, outcome |-> NoOutcome]
NoGet   == [job_id |-> [k |-> "none", n |-> 0], raised |-> FALSE, value |-> 0]

Init ==
    /\ _jobs = <<>>
    /\ heap = <<>>
    /\ pc = <<>>
    /\ frame = <<>>
    /\ clock = 0
    /\ nCalls = 0
    /\ retval = <<>>
    /\ nTrans = <<>>
    /\ nPosts = <<>>
    /\ lastGet = NoGet

\* as if an id could be handed out a second time
uuid4_Reused == IF nCalls = 0 THEN 1 ELSE nCalls
\* uuid.uuid4(): a value no earlier call returned
uuid4 == nCalls + 1

\* as if _job were kept on the service (self._job) and so named the job
\* of whichever call began last
SetStatus_SharedJob(id, s) ==
    /\ heap' = [heap EXCEPT ![nCalls].status = s]
    /\ nTrans' = [nTrans EXCEPT ![nCalls] = @ + (IF heap[nCalls].status # s THEN 1 ELSE 0)]
\* a write of _job.status
SetStatus(id, s) ==
    /\ heap' = [heap EXCEPT ![id].status = s]
    /\ nTrans' = [nTrans EXCEPT ![id] = @ + (IF heap[id].status # s THEN 1 ELSE 0)]

\* The clock advances.  Only the readings submissions take matter, so the
\* clock is let advance once per submission still to come.
Tick ==
    /\ clock < nCalls
    /\ nCalls < MaxJobs
    /\ clock' = clock + 1
    /\ UNCHANGED <<_jobs, heap, pc, frame, nCalls, retval, nTrans, nPosts, lastGet>>

\* lines 83-93, 141-151: build the job (uuid4, the mock url, created_at),
\* store it under its id, and send the request; requests.post is given no
\* timeout argument, so the call then waits for as long as it takes
BeginSubmit(user_id, input_data) ==
    /\ nCalls < MaxJobs
    /\ LET c  == nCalls + 1
           id == uuid4
           _job == AvatarJob(id, user_id, "pending", input_data,
                       _generate_mock_avatar_url(input_data, clock), clock)
       IN
       /\ heap' = (id :> _job) @@ heap
       /\ nTrans' = (id :> 0) @@ nTrans
       /\ nPosts' = (id :> (IF id \in DOMAIN nPosts THEN nPosts[id] ELSE 0) + 1)
                    @@ nPosts
       /\ _jobs' = (_job.id :> id) @@ _jobs
       /\ frame' = (c :> [user_id |-> user_id, input_data |-> input_data,
                          _job |-> id, outcome |-> NoOutcome]) @@ frame
       /\ pc' = (c :> "waiting") @@ pc
    /\ nCalls' = nCalls + 1
    /\ UNCHANGED <<clock, retval, lastGet>>

\* as if the else branch of lines 98-99 were left out
BranchStatus_AlwaysCompleted(response) == "completed"
\* the status each path of submit_job writes (lines 95-96, 99)
BranchStatus(response) ==
    IF Truthy(response.is_approved) THEN "completed" ELSE "rejected"

\* as if line 100 were left out
BranchMessage_ReasonDropped(response) == None
\* the error_message each path writes (lines 97, 100)
BranchMessage(response) ==
    IF Truthy(response.is_approved) THEN None ELSE response.reason

\* as if line 102 were left out
ExceptStatus_Unset == "pending"
\* the status the except clause writes (line 102)
ExceptStatus == "failed"

\* as if the except clause called the endpoint again (the "simple retry
\* logic" line 137 leaves optional)
AfterCaught_Retry == "waiting"
\* where a call goes on after the except clause has written the status:
\* to line 103, never back to line 93
AfterCaught == "except_message"

\* The endpoint (or the network) ends the wait of call c with outcome o.
\* Lines 151-158 run on it, then line 96, 99 or 102 writes the status of
\* the stored job.  An exception the except clause does not catch leaves
\* submit_job.
ReceiveResponse(c, o) ==
    /\ c \in DOMAIN pc
    /\ pc[c] = "waiting"
    /\ LET result == call_moderation_api(o) IN
       /\ frame' = [frame EXCEPT ![c].outcome = o]
       /\ IF ~result.raised
          THEN /\ SetStatus(frame[c]._job, BranchStatus(result))
               /\ pc' = [pc EXCEPT ![c] = "message"]
          ELSE IF result.exc.type \in Caught
          THEN /\ SetStatus(frame[c]._job, ExceptStatus)
               /\ pc' = [pc EXCEPT ![c] = AfterCaught]
          ELSE /\ pc' = [pc EXCEPT ![c] = "raised"]
               /\ UNCHANGED <<heap, nTrans>>
    /\ nPosts' = [nPosts EXCEPT ![frame[c]._job] =
                      @ + (IF pc'[c] = "waiting" THEN 1 ELSE 0)]
    /\ UNCHANGED <<_jobs, clock, nCalls, retval, lastGet>>

\* line 106: return _job
ReturnJob(c) ==
    /\ retval' = (c :> heap'[frame[c]._job]) @@ retval
    /\ pc' = [pc EXCEPT ![c] = "returned"]
    /\ frame' = [frame EXCEPT ![c] = NoFrame]

\* lines 97 / 100, 106: _job.error_message = None | response.reason, return
FinishBranch(c) ==
    /\ c \in DOMAIN pc
    /\ pc[c] = "message"
    /\ heap' = [heap EXCEPT ![frame[c]._job].error_message =
                    BranchMessage(call_moderation_api(frame[c].outcome))]
    /\ ReturnJob(c)
    /\ UNCHANGED <<_jobs, clock, nCalls, nTrans, nPosts, lastGet>>

\* lines 103, 106: _job.error_message = str(e), return
FinishExcept(c) ==
    /\ c \in DOMAIN pc
    /\ pc[c] = "except_message"
    /\ heap' = [heap EXCEPT ![frame[c]._job].error_message =
                    ExcStr(call_moderation_api(frame[c].outcome).exc)]
    /\ ReturnJob(c)
    /\ UNCHANGED <<_jobs, clock, nCalls, nTrans, nPosts, lastGet>>

\* ---------------------------------------------------------- get_job_status
\* An argument is a UUID object or a string; the keys of _jobs are UUID
\* objects (line 84 stores uuid.uuid4() itself), and a string never equals
\* a UUID object.  StrKey(1) is str() of the first id.
UuidKey(n) == [k |-> "uuid", n |-> n]
StrKey(n)  == [k |-> "str",  n |-> n]
JobIdArgs  == {UuidKey(n) : n \in Ids} \cup {StrKey(1)}

\* as if the argument were looked up by its string form only
Contains_ByString(job_id) == job_id.k = "str" /\ job_id.n \in DOMAIN _jobs
\* job_id in self._jobs
Contains(job_id) == job_id.k = "uuid" /\ job_id.n \in DOMAIN _jobs

\* as if line 119 were reached without the test of line 118: KeyError
get_job_status_Unguarded(job_id) ==
    IF Contains(job_id)
    THEN [job_id |-> job_id, raised |-> FALSE, value |-> _jobs[job_id.n]]
    ELSE [job_id |-> job_id, raised |-> TRUE, value |-> 0]
\* lines 118-120; value 0 stands for None
get_job_status(job_id) ==
    IF Contains(job_id)
    THEN [job_id |-> job_id, raised |-> FALSE, value |-> _jobs[job_id.n]]
    ELSE [job_id |-> job_id, raised |-> FALSE, value |-> 0]

GetJobStatus(job_id) ==
    /\ lastGet' = get_job_status(job_id)
    /\ UNCHANGED <<_jobs, heap, pc, frame, clock, nCalls, retval, nTrans, nPosts>>

\* ---------------------------------------------------------- specifications
Next ==
    \/ Tick
    \/ \E i \in Inputs : BeginSubmit(i[1], i[2])
    \/ \E c \in Calls, o \in Outcomes : ReceiveResponse(c, o)
    \/ \E c \in Calls : FinishBranch(c)
    \/ \E c \in Calls : FinishExcept(c)
    \/ \E j \in JobIdArgs : GetJobStatus(j)

Spec == Init /\ [][Next]_vars

\* The steps of a call that are the program's own are taken eventually.  The
\* end of the wait is not among them: the endpoint need never answer, and
\* line 151 sets no timeout that would end the wait without it.
FairSpec ==
    Spec /\ \A c \in Calls : WF_vars(FinishBranch(c)) /\ WF_vars(FinishExcept(c))

TypeOK ==
    /\ DOMAIN heap \subseteq Ids
    /\ DOMAIN _jobs \subseteq DOMAIN heap
    /\ DOMAIN pc = 1..nCalls
    /\ \A c \in DOMAIN pc : pc[c] \in {"waiting", "message", "except_message",
                                       "returned", "raised"}
    /\ clock \in 0..MaxJobs
    /\ nCalls \in 0..MaxJobs

\* ------------------------------------------------------------------ claims
\* the step in which call c returns its job
Returns(c) == c \in DOMAIN pc /\ pc[c] # "returned" /\ pc'[c] = "returned"

\* what the endpoint did, by kind
Is2xxObject(o) == o.net = "ok" /\ o.status = "2xx" /\ o.body.form = "object"
Approves(o)    == Is2xxObject(o) /\ o.body.approved = PyTrue
Rejects(o)     == Is2xxObject(o) /\ o.body.approved = PyFalse /\ o.body.reason # Absent
\* a failed call as spec.md section 6 has it: no connection, a status
\* outside 2xx, or a body that does not parse
FailedCall(o)  == o.net # "ok" \/ o.status # "2xx" \/ o.body.form = "invalid"

\* C1: every job submit_job returned has a non-null error_message exactly
\* when its status is rejected or failed.
C1_ErrorMessageIffRejectedOrFailed ==
    \A c \in DOMAIN retval :
        (retval[c].error_message # None) <=> (retval[c].status \in {"rejected", "failed"})

\* C2: a job submit_job returned is completed, rejected or failed, never
\* pending, and its status was changed exactly once.
C2_ReturnedJobIsTerminal ==
    \A c \in DOMAIN retval :
        /\ retval[c].status \in Terminal
        /\ retval[c].status # "pending"
        /\ nTrans[retval[c].id] = 1

C2_Witness ==
    /\ DOMAIN retval = Calls
    /\ retval[1].status = "failed"
    /\ retval[2].status = "completed"

\* C3: when the endpoint answers 2xx with approved = true, with or without
\* a reason field, submit_job returns a completed job with a null
\* error_message.
C3_ApprovedCompletes ==
    [][\A c \in Calls :
          (Returns(c) /\ Approves(frame[c].outcome))
              => (retval'[c].status = "completed" /\ retval'[c].error_message = None)]_vars

\* C4: when the endpoint answers 2xx with approved = false and a reason r,
\* submit_job does not raise and returns a rejected job whose error_message
\* is r.
C4_RejectedCarriesReason ==
    [][\A c \in Calls :
          /\ (c \in DOMAIN pc' /\ Rejects(frame'[c].outcome)) => pc'[c] # "raised"
          /\ (Returns(c) /\ Rejects(frame[c].outcome))
                 => /\ retval'[c].status = "rejected"
                    /\ retval'[c].error_message = frame[c].outcome.body.reason]_vars

C4_Witness ==
    \E c \in DOMAIN retval :
        /\ retval[c].status = "rejected"
        /\ retval[c].error_message = PyStr("unsafe")

\* C5: when the moderation call fails (no connection, a status outside 2xx,
\* a body that does not parse), submit_job returns a failed job whose
\* error_message is a non-empty string.
C5_FailedCallFails ==
    [][\A c \in Calls :
          (Returns(c) /\ FailedCall(frame[c].outcome))
              => /\ retval'[c].status = "failed"
                 /\ retval'[c].error_message.k = "str"
                 /\ retval'[c].error_message.v # ""]_vars

\* C6: no exception of call_moderation_api leaves submit_job: a call whose
\* moderation call raised goes on to the except clause, and returns a
\* failed job that is in the store.
C6_NoFailureEscapes ==
    [][\A c \in DOMAIN pc' :
          /\ pc'[c] # "raised"
          /\ (pc'[c] \in {"message", "except_message"}
                 /\ call_moderation_api(frame'[c].outcome).raised)
                 => pc'[c] = "except_message"
          /\ (Returns(c) /\ call_moderation_api(frame[c].outcome).raised)
                 => /\ retval'[c].status = "failed"
                    /\ retval'[c].id \in DOMAIN _jobs'
                    /\ heap'[_jobs'[retval'[c].id]] = retval'[c]]_vars

C6_Witness ==
    \E c \in DOMAIN retval :
        /\ retval[c].status = "failed"
        /\ retval[c].error_message = PyStr("'approved'")
        /\ Contains(UuidKey(retval[c].id))

\* C7: every call of submit_job that has begun eventually returns with its
\* job in a terminal status, also when the endpoint never answers.
C7_EverySubmissionReturns ==
    \A c \in Calls :
        (c \in DOMAIN pc)
            ~> (c \in DOMAIN retval /\ pc[c] = "returned"
                    /\ retval[c].status \in Terminal)

\* C8: no two jobs share an id or an output_url, and neither do two records
\* of the store.
C8_DistinctIdsAndUrls ==
    /\ \A a, b \in DOMAIN retval :
           a # b => /\ retval[a].id # retval[b].id
                    /\ retval[a].output_url # retval[b].output_url
    /\ \A a, b \in DOMAIN _jobs :
           a # b => /\ heap[_jobs[a]].id # heap[_jobs[b]].id
                    /\ heap[_jobs[a]].output_url # heap[_jobs[b]].output_url

\* the ids submissions have produced so far
Produced == {heap[j].id : j \in DOMAIN heap}

\* C9: get_job_status never raises, returns None for an id no submission
\* has produced, and returns a job only for a key of the store.
C9_UnknownIdIsAbsent ==
    /\ ~lastGet.raised
    /\ (lastGet.job_id.k # "uuid" \/ lastGet.job_id.n \notin Produced)
           => lastGet.value = 0
    /\ lastGet.value # 0
           => Contains(lastGet.job_id) /\ lastGet.value = _jobs[lastGet.job_id.n]
    /\ \A j \in JobIdArgs :
           /\ ~get_job_status(j).raised
           /\ (j.k # "uuid" \/ j.n \notin Produced) => get_job_status(j).value = 0
           /\ get_job_status(j).value # 0 => Contains(j)

C9_Witness ==
    /\ nCalls = 1
    /\ lastGet.job_id = UuidKey(2)
    /\ lastGet.value = 0
    /\ ~lastGet.raised

\* the jobs whose submit_job has returned
ReturnedIds == {retval[c].id : c \in DOMAIN retval}

\* C10: the status of a job changes only from pending to completed,
\* rejected or failed, and only once; after submit_job has returned the
\* job, no step of any call changes its status or error_message.
C10_TerminalIsImmutable ==
    [][\A j \in DOMAIN heap :
          /\ j \in DOMAIN heap'
          /\ heap'[j].status # heap[j].status
                 => /\ heap[j].status = "pending"
                    /\ heap'[j].status \in Terminal
                    /\ nTrans[j] = 0
          /\ j \in ReturnedIds
                 => /\ heap'[j].status = heap[j].status
                    /\ heap'[j].error_message = heap[j].error_message]_vars

C10_Witness ==
    /\ DOMAIN retval = Calls
    /\ heap[1].status = "rejected"
    /\ pc[2] = "returned"
    /\ lastGet.value = 1

\* the job of call c, and the calls that have begun and not yet ended
JobOf(c)   == frame[c]._job
InProgress == {c \in DOMAIN pc : pc[c] \in {"waiting", "message", "except_message"}}

\* The status and error_message submit_job is to leave on a job whose
\* moderation call ended with o, read off lines 95-103.
FinalStatus(o) ==
    IF call_moderation_api(o).raised THEN "failed"
    ELSE IF o.body.approved = PyTrue THEN "completed" ELSE "rejected"
FinalMessage(o) ==
    IF call_moderation_api(o).raised THEN ExcStr(call_moderation_api(o).exc)
    ELSE IF o.body.approved = PyTrue THEN None ELSE o.body.reason

\* a 2xx response whose body is an object without the approved field
LacksApproved(o) == Is2xxObject(o) /\ o.body.approved = Absent

\* C11: a 2xx response whose body lacks the approved field makes the call
\* take the except clause; the job is failed from then on and is returned
\* failed with a non-null error_message, never completed or rejected.
C11_MissingApprovedFails ==
    [][\A c \in Calls :
          /\ (c \in DOMAIN pc' /\ LacksApproved(frame'[c].outcome))
                 => /\ pc'[c] = "except_message"
                    /\ heap'[frame'[c]._job].status = "failed"
          /\ (Returns(c) /\ LacksApproved(frame[c].outcome))
                 => /\ retval'[c].status = "failed"
                    /\ retval'[c].error_message # None]_vars

C11_Witness ==
    /\ 1 \in DOMAIN retval
    /\ retval[1].status = "failed"
    /\ retval[1].error_message = PyStr("'approved'")
    /\ heap[1] = retval[1]

\* C12: every job has had exactly one moderation call sent for it; a call
\* waits for the endpoint only while its job is pending, so no call is sent
\* for a terminal job and a failed one is not tried again.
C12_OneModerationCallPerJob ==
    /\ \A j \in DOMAIN heap : j \in DOMAIN nPosts /\ nPosts[j] = 1
    /\ \A c \in DOMAIN pc :
           pc[c] = "waiting" => heap[JobOf(c)].status = "pending"
    /\ \A c \in DOMAIN retval :
           retval[c].status = "failed" => heap[retval[c].id].status = "failed"

C12_Witness ==
    /\ DOMAIN retval = Calls
    /\ \A c \in Calls : retval[c].status = "failed" /\ nPosts[retval[c].id] = 1

\* C13: every job has a non-null output_url from the step that creates it,
\* in every status, and no step changes the output_url of a job.
C13_OutputUrlSetAndStable ==
    [][\A j \in DOMAIN heap' :
          /\ heap'[j].output_url # None
          /\ j \in DOMAIN _jobs'
          /\ j \in DOMAIN heap => heap'[j].output_url = heap[j].output_url]_vars

C13_Witness ==
    /\ nCalls = 2
    /\ heap[1].status = "rejected"
    /\ heap[2].status = "pending"
    /\ heap[1].output_url # None
    /\ heap[2].output_url # None

\* C14: however the steps of the calls interleave, the store holds one
\* record per submission, and the status and error_message of each job are
\* those of its own moderation call: pending while its call waits, the
\* status of its own outcome once that arrived, and both when returned and
\* ever after.
C14_JobsAreIndependent ==
    [][/\ Cardinality(DOMAIN _jobs') = nCalls'
       /\ \A c \in DOMAIN pc' :
             /\ pc'[c] = "waiting"
                    => /\ heap'[frame'[c]._job].status = "pending"
                       /\ heap'[frame'[c]._job].error_message = None
             /\ pc'[c] \in {"message", "except_message"}
                    => /\ heap'[frame'[c]._job].status = FinalStatus(frame'[c].outcome)
                       /\ heap'[frame'[c]._job].error_message = None
             /\ Returns(c)
                    => /\ retval'[c].status = FinalStatus(frame[c].outcome)
                       /\ retval'[c].error_message = FinalMessage(frame[c].outcome)
                       /\ retval'[c].id = frame[c]._job
             /\ c \in DOMAIN retval' => heap'[retval'[c].id] = retval'[c]]_vars

C14_Witness ==
    /\ nCalls = 2
    /\ pc[1] = "message"
    /\ pc[2] = "except_message"
    /\ heap[1].status = "completed"
    /\ heap[2].status = "failed"

\* C15: once submit_job has returned job j, get_job_status(j.id) returns
\* the stored record, which has all the fields j was returned with, in every
\* later state.
C15_StoreAgreesWithReturned ==
    \A c \in DOMAIN retval :
        LET got == get_job_status(UuidKey(retval[c].id)) IN
        /\ ~got.raised
        /\ got.value # 0
        /\ heap[got.value] = retval[c]
        /\ Cardinality(DOMAIN _jobs) = nCalls

C15_Witness ==
    /\ 2 \in DOMAIN retval
    /\ pc[1] = "waiting"
    /\ lastGet.job_id = UuidKey(2)
    /\ lastGet.value = 2
    /\ heap[2] = retval[2]

\* the job get_job_status has just returned, when the step is a lookup that
\* found one whose call is still in progress
ReadsInProgress(j, c) ==
    /\ GetJobStatus(j)
    /\ c \in InProgress
    /\ lastGet'.value = JobOf(c)

\* C16 as stated: a job read while its call is in progress is pending with
\* a null error_message, or has the status and error_message it will be
\* returned with.
C16_ReaderSeesPendingOrFinal ==
    [][\A j \in JobIdArgs, c \in Calls :
          ReadsInProgress(j, c)
              => \/ /\ heap[JobOf(c)].status = "pending"
                    /\ heap[JobOf(c)].error_message = None
                 \/ /\ heap[JobOf(c)].status = FinalStatus(frame[c].outcome)
                    /\ heap[JobOf(c)].error_message = FinalMessage(frame[c].outcome)]_vars

\* C16 amended: a job read while its call is in progress is pending with a
\* null error_message, or has its final status with an error_message that
\* is either final or still null.
C16_ReaderSeesPendingOrFinalStatus ==
    [][\A j \in JobIdArgs, c \in Calls :
          ReadsInProgress(j, c)
              => \/ /\ pc[c] = "waiting"
                    /\ heap[JobOf(c)].status = "pending"
                    /\ heap[JobOf(c)].error_message = None
                 \/ /\ pc[c] # "waiting"
                    /\ heap[JobOf(c)].status = FinalStatus(frame[c].outcome)
                    /\ heap[JobOf(c)].error_message
                           \in {None, FinalMessage(frame[c].outcome)}]_vars

C16_Witness ==
    \E c \in InProgress :
        /\ pc[c] = "message"
        /\ lastGet.value = JobOf(c)
        /\ heap[JobOf(c)].status = "rejected"
        /\ heap[JobOf(c)].error_message = None
        /\ FinalMessage(frame[c].outcome) = PyStr("unsafe")

\* C17: the step that begins a submit_job adds exactly one key to the
\* store; a step of a call changes no job but the call's own; no other step
\* changes the store's keys, and a get_job_status changes neither the keys
\* nor any job.
C17_FrameOfSubmitAndGet ==
    [][/\ nCalls' # nCalls
          => /\ DOMAIN _jobs \subseteq DOMAIN _jobs'
             /\ Cardinality(DOMAIN _jobs' \ DOMAIN _jobs) = 1
             /\ \A k \in DOMAIN _jobs : _jobs'[k] = _jobs[k]
             /\ \A j \in DOMAIN heap : heap'[j] = heap[j]
       /\ nCalls' = nCalls => _jobs' = _jobs
       /\ \A j \in DOMAIN heap :
             heap'[j] # heap[j]
                 => \E c \in InProgress : JobOf(c) = j /\ pc'[c] # pc[c]
       /\ lastGet' # lastGet => (_jobs' = _jobs /\ heap' = heap)]_vars

C17_Witness ==
    /\ nCalls = 2
    /\ Cardinality(DOMAIN _jobs) = 2
    /\ heap[1].status = "completed"
    /\ pc[2] = "waiting"
    /\ lastGet.job_id = StrKey(1)
====
